---- MODULE Spec2Model ----
(***************************************************************************)
(* Context search engine (search_engine.py) and its Flask front end        *)
(* (app.py).                                                               *)
(*                                                                         *)
(* Strings are sequences of Unicode code points (Python str is a sequence  *)
(* of code points).  Scores and weights are exact rationals kept as        *)
(* integers over a fixed denominator (see "Scores and weights"); the       *)
(* rounding of the float products is not modelled, so two final scores     *)
(* that are equal here may differ in their last bit in the program.        *)
(***************************************************************************)
EXTENDS Integers, Sequences, FiniteSets, TLC

VARIABLES
    text,             \* tokenize: the argument
    tokens,           \* tokenize: the returned list
    raw,              \* load_documents: the parsed JSON list
    load_result,      \* load_documents: the returned list or the raised exception
    documents,        \* BasicSearchEngine.documents
    user_context,     \* the UserContext (query_history, location, time_segment, preferences)
    query,            \* the query of the last call or request
    basic_results,    \* the list returned by the last search
    context_results,  \* the list returned by the last search_with_context
    history_prefs,    \* the dict returned by the last build_history_preferences
    context_info,     \* index(): the context_info handed to the template
    pc                \* name of the last operation

vars == <<text, tokens, raw, load_result, documents, user_context, query,
          basic_results, context_results, history_prefs, context_info, pc>>

----------------------------------------------------------------------------
(* Bounds *)

MaxLen == 3          \* longest text given to tokenize
MaxRecords == 2      \* longest record list given to load_documents
MaxMissing == 2      \* most fields a record of that list lacks
MaxHist == 3         \* longest query_history given to build_history_preferences
MaxDocs == 2         \* longest document list given to the engines
MaxCtxHist == 2      \* longest query_history of a context given to search_with_context
MaxRequests == 11    \* most requests with a query that index() handles

----------------------------------------------------------------------------
(* Strings *)

SPACE == 32

\* the three time segments, and a string that is none of them ("noon")
morning == <<109, 111, 114, 110, 105, 110, 103>>
evening == <<101, 118, 101, 110, 105, 110, 103>>
any == <<97, 110, 121>>
noon == <<110, 111, 111, 110>>

Kyiv == <<75, 121, 105, 118>>
KYIV == <<75, 89, 73, 86>>
Lviv == <<76, 118, 105, 118>>
LVIV == <<76, 86, 73, 86>>

\* str.lower() on the code points used here: ASCII A-Z, Cyrillic U+0400-U+040F
\* (+80) and U+0410-U+042F (+32); every other code point used is caseless or
\* already lower case.
LowerChar(c) ==
    IF c >= 65 /\ c <= 90 THEN c + 32
    ELSE IF c >= 1024 /\ c <= 1039 THEN c + 80
    ELSE IF c >= 1040 /\ c <= 1071 THEN c + 32
    ELSE c

Lower(s) == [i \in 1..Len(s) |-> LowerChar(s[i])]

\* str.replace(old, " ") for a one-character old
Replace(s, old) == [i \in 1..Len(s) |-> IF s[i] = old THEN SPACE ELSE s[i]]

\* str.split(" "): the fragments between single spaces, empty ones included
RECURSIVE SplitFrom(_, _, _)
SplitFrom(s, i, cur) ==
    IF i > Len(s) THEN <<cur>>
    ELSE IF s[i] = SPACE THEN <<cur>> \o SplitFrom(s, i + 1, <<>>)
    ELSE SplitFrom(s, i + 1, Append(cur, s[i]))

Split(s) == SplitFrom(s, 1, <<>>)

\* the Python operator "a in b" on strings
Contains(b, a) ==
    \E i \in 0..(Len(b) - Len(a)) : SubSeq(b, i + 1, i + Len(a)) = a

\* the characters str.strip() removes, among the code points below U+0100
Whitespace == {9, 10, 11, 12, 13, 28, 29, 30, 31, SPACE, 133, 160}

RECURSIVE LStrip(_)
LStrip(s) == IF s # <<>> /\ s[1] \in Whitespace THEN LStrip(Tail(s)) ELSE s

RECURSIVE RStrip(_)
RStrip(s) ==
    IF s # <<>> /\ s[Len(s)] \in Whitespace THEN RStrip(SubSeq(s, 1, Len(s) - 1)) ELSE s

\* str.strip()
Strip(s) == RStrip(LStrip(s))

\* " ".join(list)
RECURSIVE Join(_)
Join(l) ==
    IF l = <<>> THEN <<>>
    ELSE IF Len(l) = 1 THEN l[1]
    ELSE l[1] \o <<SPACE>> \o Join(Tail(l))

----------------------------------------------------------------------------
(* tokenize *)

\* , . ; : ! ? ( ) [ ] { } " ' U+00AB U+00BB \n \r \t
separators == <<44, 46, 59, 58, 33, 63, 40, 41, 91, 93, 123, 125, 34, 39,
                171, 187, 10, 13, 9>>

RECURSIVE ReplaceSeparators(_, _)
ReplaceSeparators(s, k) ==
    IF k > Len(separators) THEN s
    ELSE ReplaceSeparators(Replace(s, separators[k]), k + 1)

NonEmpty(t) == t # <<>>

tokenize_drop_nothing(t) == SelectSeq(Split(ReplaceSeparators(Lower(t), 1)), LAMBDA f : TRUE)

tokenize(t) == SelectSeq(Split(ReplaceSeparators(Lower(t), 1)), NonEmpty)

\* the characters tokenize is tried on: a, B, the space, every separator, and
\* two characters that are no separators: the curly quote U+201C and the
\* no-break space U+00A0
Alphabet == {97, 66, SPACE, 8220, 160} \cup {separators[k] : k \in 1..Len(separators)}

RECURSIVE StringsUpTo(_)
StringsUpTo(n) ==
    IF n = 0 THEN {<<>>}
    ELSE LET shorter == StringsUpTo(n - 1)
         IN shorter \cup {Append(s, c) : s \in {x \in shorter : Len(x) = n - 1}, c \in Alphabet}

NotCalled == "not called"

\* UserContext(location=..., time_segment=...): the other fields take their
\* default_factory values, the empty list and the empty dict
UserContext(location, time_segment) ==
    [query_history |-> <<>>, location |-> location,
     time_segment |-> time_segment, preferences |-> <<>>]

\* the parts of the state an operation under study does not use
TokIdle == text = <<>> /\ tokens = NotCalled

LoadIdle == raw = <<>> /\ load_result = NotCalled

EngineIdle ==
    /\ documents = <<>>
    /\ user_context = UserContext(Kyiv, any)
    /\ query = <<>>
    /\ basic_results = NotCalled
    /\ context_results = NotCalled
    /\ history_prefs = NotCalled
    /\ context_info = NotCalled

InitTok ==
    /\ text \in StringsUpTo(MaxLen)
    /\ tokens = NotCalled
    /\ LoadIdle
    /\ EngineIdle
    /\ pc = "start"

Tokenize ==
    /\ pc = "start"
    /\ tokens' = tokenize(text)
    /\ pc' = "tokenize"
    /\ UNCHANGED <<text, raw, load_result, documents, user_context, query,
                   basic_results, context_results, history_prefs, context_info>>

NextTok == Tokenize

SpecTok == InitTok /\ [][NextTok]_vars

----------------------------------------------------------------------------
(* load_documents *)

\* the keys read by load_documents, in the order the Document(...) call reads them
required == <<"id", "title", "content", "location", "category">>

Fields == {"id", "title", "content", "location", "category", "time_tag"}

\* the value a record of the input holds under a key
FieldValue(f) ==
    CASE f = "id" -> 1
      [] f = "title" -> <<78, 101, 119, 115>>
      [] f = "content" -> <<110, 101, 119, 115>>
      [] f = "location" -> Kyiv
      [] f = "category" -> "news"
      [] f = "time_tag" -> morning

\* a JSON object: a function from the keys it has to their values
Records ==
    {[f \in present |-> FieldValue(f)] :
        present \in {p \in SUBSET Fields : Cardinality(Fields \ p) <= MaxMissing}}

RECURSIVE SeqsUpTo(_, _)
SeqsUpTo(S, n) ==
    IF n = 0 THEN {<<>>}
    ELSE LET shorter == SeqsUpTo(S, n - 1)
         IN shorter \cup {Append(s, x) : s \in {y \in shorter : Len(y) = n - 1}, x \in S}

\* the first key of required that d lacks, "" when it has them all: d["id"],
\* d["title"], ... are evaluated in this order and the first failure raises
RECURSIVE FirstMissing(_, _)
FirstMissing(d, k) ==
    IF k > Len(required) THEN ""
    ELSE IF required[k] \notin DOMAIN d THEN required[k]
    ELSE FirstMissing(d, k + 1)

\* d.get("time_tag", "any")
GetTimeTagNoDefault(d) == IF "time_tag" \in DOMAIN d THEN d["time_tag"] ELSE <<>>

GetTimeTag(d) == IF "time_tag" \in DOMAIN d THEN d["time_tag"] ELSE any

MakeDocument(d) ==
    [id |-> d["id"], title |-> d["title"], content |-> d["content"],
     location |-> d["location"], category |-> d["category"],
     time_tag |-> GetTimeTag(d)]

\* d[key] on a dict without the key: KeyError(key)
KeyError(key) == [raised |-> "KeyError", key |-> key]

\* the for loop of load_documents from record i on, docs being the list so far
RECURSIVE LoadFrom(_, _, _)
LoadFrom(r, i, docs) ==
    IF i > Len(r) THEN [returned |-> docs]
    ELSE IF FirstMissing(r[i], 1) # "" THEN KeyError(FirstMissing(r[i], 1))
    ELSE LoadFrom(r, i + 1, Append(docs, MakeDocument(r[i])))

load_documents(r) == LoadFrom(r, 1, <<>>)

InitLoad ==
    /\ raw \in SeqsUpTo(Records, MaxRecords)
    /\ load_result = NotCalled
    /\ TokIdle
    /\ EngineIdle
    /\ pc = "start"

LoadDocuments ==
    /\ pc = "start"
    /\ load_result' = load_documents(raw)
    /\ pc' = "load_documents"
    /\ UNCHANGED <<text, tokens, raw, documents, user_context, query,
                   basic_results, context_results, history_prefs, context_info>>

NextLoad == LoadDocuments

SpecLoad == InitLoad /\ [][NextLoad]_vars

----------------------------------------------------------------------------
(* Scores and weights *)

\* base_score is a count n of increments of 1.0 and is kept as n.  The factors
\* 1.5, 1.3, 1.0, 0.9 are kept in tenths, category weights in quarters, and a
\* final_score, the product of a count, two factors and a weight, in 1/400.
LocationBoost == 15
Neutral == 10
TimeBoost == 13
TimePenalty == 9

One == 4         \* the weight 1.0, in quarters
HalfStep == 2    \* the weight 0.5, in quarters

\* the product of two weights, both in quarters
Times(a, b) == (a * b) \div One

----------------------------------------------------------------------------
(* BasicSearchEngine.search *)

RECURSIVE InsertDescUnstable(_, _, _)
InsertDescUnstable(sorted, x, field) ==
    IF sorted = <<>> THEN <<x>>
    ELSE IF sorted[1][field] > x[field] THEN <<sorted[1]>> \o InsertDescUnstable(Tail(sorted), x, field)
    ELSE <<x>> \o sorted

\* list.sort(key=lambda x: x[field], reverse=True): stable, descending.
\* Insertion from the left: an item goes behind every item whose key is not smaller.
RECURSIVE InsertDesc(_, _, _)
InsertDesc(sorted, x, field) ==
    IF sorted = <<>> THEN <<x>>
    ELSE IF sorted[1][field] >= x[field] THEN <<sorted[1]>> \o InsertDesc(Tail(sorted), x, field)
    ELSE <<x>> \o sorted

RECURSIVE SortDescFrom(_, _, _, _)
SortDescFrom(l, i, sorted, field) ==
    IF i > Len(l) THEN sorted
    ELSE SortDescFrom(l, i + 1, InsertDesc(sorted, l[i], field), field)

SortDesc(l, field) == SortDescFrom(l, 1, <<>>, field)

\* the inner loop of search: one increment per query token found in the text
RECURSIVE CountMatches(_, _, _)
CountMatches(doc_text, query_tokens, k) ==
    IF k > Len(query_tokens) THEN 0
    ELSE (IF Contains(doc_text, query_tokens[k]) THEN 1 ELSE 0)
         + CountMatches(doc_text, query_tokens, k + 1)

DocTextTitleOnly(doc) == Lower(doc.title)

DocText(doc) == Lower(doc.title \o <<SPACE>> \o doc.content)

BaseScore(doc, query_tokens) == CountMatches(DocText(doc), query_tokens, 1)

\* the outer loop of search from document i on
RECURSIVE Matches(_, _, _)
Matches(docs, query_tokens, i) ==
    IF i > Len(docs) THEN <<>>
    ELSE LET score == BaseScore(docs[i], query_tokens)
         IN (IF score > 0 THEN <<[doc |-> docs[i], base_score |-> score]>> ELSE <<>>)
            \o Matches(docs, query_tokens, i + 1)

search(docs, q) == SortDesc(Matches(docs, tokenize(q), 1), "base_score")

----------------------------------------------------------------------------
(* ContextSearchEngine.build_history_preferences *)

tracked == <<"food", "news", "education", "sport">>

Tracked == {tracked[k] : k \in 1..Len(tracked)}

\* the substrings tested for each category (transliterated in the names)
kafe == <<1082, 1072, 1092, 1077>>
restoran == <<1088, 1077, 1089, 1090, 1086, 1088, 1072, 1085>>
yizha == <<1111, 1078, 1072>>
novyny == <<1085, 1086, 1074, 1080, 1085, 1080>>
news == <<110, 101, 119, 115>>
kurs == <<1082, 1091, 1088, 1089>>
navchannya == <<1085, 1072, 1074, 1095, 1072, 1085, 1085, 1103>>
python == <<112, 121, 116, 104, 111, 110>>
sport == <<1089, 1087, 1086, 1088, 1090>>
fitnes == <<1092, 1110, 1090, 1085, 1077, 1089>>
baseyn == <<1073, 1072, 1089, 1077, 1081, 1085>>

Keywords(cat) ==
    CASE cat = "food" -> {kafe, restoran, yizha}
      [] cat = "news" -> {novyny, news}
      [] cat = "education" -> {kurs, navchannya, python}
      [] cat = "sport" -> {sport, fitnes, baseyn}

\* the condition of one if statement of the history loop
Mentions(q, cat) == \E kw \in Keywords(cat) : Contains(q, kw)

\* prefs[cat] after the history loop: one increment per entry that mentions cat
RECURSIVE Accumulate(_, _, _)
Accumulate(history, cat, i) ==
    IF i > Len(history) THEN 0
    ELSE (IF Mentions(history[i], cat) THEN 1 ELSE 0) + Accumulate(history, cat, i + 1)

HistoryWeightCapped(v) == IF v > 0 THEN One + HalfStep ELSE One

\* the second loop: 1.0 + v * 0.5 when v > 0, else 1.0
HistoryWeight(v) == IF v > 0 THEN One + v * HalfStep ELSE One

build_history_preferences(context) ==
    [cat \in Tracked |-> HistoryWeight(Accumulate(context.query_history, cat, 1))]

----------------------------------------------------------------------------
(* ContextSearchEngine.search_with_context *)

CombinedPrefsHistoryOnly(context) == build_history_preferences(context)

\* combined_prefs: the history weights, each multiplied by the explicit
\* preference of its category; an explicit preference of another category
\* is multiplied into combined_prefs.get(cat, 1.0) = 1.0
CombinedPrefs(context) ==
    LET history == build_history_preferences(context)
        explicit == context.preferences
    IN [cat \in Tracked \cup DOMAIN explicit |->
            IF cat \in DOMAIN explicit
            THEN Times(IF cat \in Tracked THEN history[cat] ELSE One, explicit[cat])
            ELSE history[cat]]

\* combined_prefs.get(doc.category, 1.0)
CatWeight(combined, doc) ==
    IF doc.category \in DOMAIN combined THEN combined[doc.category] ELSE One

MatchedLocationCaseSensitive(doc, context) == doc.location = context.location

MatchedLocation(doc, context) == Lower(doc.location) = Lower(context.location)

LocationFactor(doc, context) ==
    IF MatchedLocation(doc, context) THEN LocationBoost ELSE Neutral

TimeFactorNoPenalty(doc, context) ==
    IF doc.time_tag = context.time_segment THEN TimeBoost ELSE Neutral

TimeFactor(doc, context) ==
    IF doc.time_tag = context.time_segment THEN TimeBoost
    ELSE IF doc.time_tag = any THEN Neutral
    ELSE TimePenalty

\* the body of the loop over base_results
Adapt(item, context, combined) ==
    [doc |-> item.doc,
     base_score |-> item.base_score,
     final_score |-> item.base_score * LocationFactor(item.doc, context)
                       * TimeFactor(item.doc, context) * CatWeight(combined, item.doc),
     context_info |-> [matched_location |-> MatchedLocation(item.doc, context),
                       time_segment |-> context.time_segment,
                       doc_time_tag |-> item.doc.time_tag,
                       category_weight |-> CatWeight(combined, item.doc)]]

search_with_context(docs, q, context) ==
    LET base_results == search(docs, q)
        combined_prefs == CombinedPrefs(context)
    IN IF base_results = <<>> THEN <<>>
       ELSE SortDesc([i \in 1..Len(base_results) |->
                          Adapt(base_results[i], context, combined_prefs)],
                     "final_score")

----------------------------------------------------------------------------
(* The engines on bounded inputs *)

\* titles, contents and queries (transliterated in the names)
Kafe_Perlyna == <<1050, 1072, 1092, 1077, 32, 1055, 1077, 1088, 1083, 1080, 1085, 1072>>
smachna_yizha == <<1089, 1084, 1072, 1095, 1085, 1072, 32, 1111, 1078, 1072>>
News == <<78, 101, 119, 115>>
python_kurs == <<112, 121, 116, 104, 111, 110, 32, 1082, 1091, 1088, 1089>>
Sport == <<1057, 1087, 1086, 1088, 1090>>
kafe_news == <<1082, 1072, 1092, 1077, 32, 110, 101, 119, 115>>
Kafe_comma_news_bang == <<1050, 1072, 1092, 1077, 44, 32, 110, 101, 119, 115, 33>>
news_news == <<110, 101, 119, 115, 32, 110, 101, 119, 115>>
pryvit == <<1087, 1088, 1080, 1074, 1110, 1090>>
question_bang == <<63, 33>>
kafe_khoroshe == <<1082, 1072, 1092, 1077, 32, 1093, 1086, 1088, 1086, 1096, 1077>>
novyny_sport == <<1085, 1086, 1074, 1080, 1085, 1080, 32, 1089, 1087, 1086, 1088, 1090>>
restoran_yizha == <<1088, 1077, 1089, 1090, 1086, 1088, 1072, 1085, 32, 1111, 1078, 1072>>
Kafe == <<1050, 1072, 1092, 1077>>

Doc(title, content, location, category, time_tag) ==
    [id |-> 0, title |-> title, content |-> content, location |-> location,
     category |-> category, time_tag |-> time_tag]

\* documents that differ in what the context factors look at
ScoreDocs ==
    {Doc(Kafe_Perlyna, smachna_yizha, l, c, t) :
        l \in {Kyiv, KYIV, Lviv}, c \in {"food", "travel"},
        t \in {morning, evening, any, noon}}

\* documents that differ in what they match
RankDocs ==
    {Doc(Kafe_Perlyna, smachna_yizha, Kyiv, "food", any),
     Doc(News, python_kurs, Lviv, "news", morning),
     Doc(Sport, kafe_news, KYIV, "sport", evening),
     Doc(News, kafe_news, Lviv, "travel", any),
     Doc(kafe_news, News, Kyiv, "food", morning)}

\* ids are the positions in the list
Numbered(l) == [i \in 1..Len(l) |-> [l[i] EXCEPT !.id = i]]

ScoreLists == {Numbered(<<d>>) : d \in ScoreDocs}

RankLists == {Numbered(l) : l \in SeqsUpTo(RankDocs, MaxDocs)}

Queries == {question_bang, kafe, Kafe_comma_news_bang, news_news, pryvit}

\* explicit preferences: none, {"food": 2.0}, {"travel": 0.5, "news": 2.0}
PreferenceDicts == {<<>>, [food |-> 8], [travel |-> 2, news |-> 8]}

Contexts ==
    {[query_history |-> h, location |-> l, time_segment |-> t, preferences |-> p] :
        h \in SeqsUpTo({kafe_khoroshe, novyny_sport}, MaxCtxHist),
        l \in {Kyiv, LVIV}, t \in {morning, any, noon}, p \in PreferenceDicts}

\* the contexts the longer document lists are searched with
RankContexts ==
    {c \in Contexts : /\ c.query_history \in {<<>>, <<kafe_khoroshe>>}
                      /\ c.time_segment \in {morning, any}
                      /\ DOMAIN c.preferences \in {{}, {"food"}}}

InitSearch ==
    /\ \/ documents \in ScoreLists /\ user_context \in Contexts
       \/ documents \in RankLists /\ user_context \in RankContexts
    /\ query = <<>>
    /\ basic_results = NotCalled
    /\ context_results = NotCalled
    /\ history_prefs = NotCalled
    /\ context_info = NotCalled
    /\ TokIdle
    /\ LoadIdle
    /\ pc = "start"

Search(q) ==
    /\ pc = "start"
    /\ query' = q
    /\ basic_results' = search(documents, q)
    /\ pc' = "search"
    /\ UNCHANGED <<text, tokens, raw, load_result, documents, user_context,
                   context_results, history_prefs, context_info>>

SearchWithContext(q) ==
    /\ pc = "start"
    /\ query' = q
    /\ context_results' = search_with_context(documents, q, user_context)
    /\ pc' = "search_with_context"
    /\ UNCHANGED <<text, tokens, raw, load_result, documents, user_context,
                   basic_results, history_prefs, context_info>>

NextSearch == \E q \in Queries : Search(q) \/ SearchWithContext(q)

SpecSearch == InitSearch /\ [][NextSearch]_vars

\* query_history entries: one per keyword, two keywords of one category, two
\* categories, no keyword, a keyword in another letter case
HistoryEntries ==
    {kafe, restoran, yizha, novyny, news, kurs, navchannya, python, sport, fitnes,
     baseyn, restoran_yizha, novyny_sport, pryvit, Kafe}

InitHist ==
    /\ user_context \in {[UserContext(Kyiv, any) EXCEPT !.query_history = h] :
                            h \in SeqsUpTo(HistoryEntries, MaxHist)}
    /\ documents = <<>>
    /\ query = <<>>
    /\ basic_results = NotCalled
    /\ context_results = NotCalled
    /\ history_prefs = NotCalled
    /\ context_info = NotCalled
    /\ TokIdle
    /\ LoadIdle
    /\ pc = "start"

BuildHistoryPreferences ==
    /\ pc = "start"
    /\ history_prefs' = build_history_preferences(user_context)
    /\ pc' = "build_history_preferences"
    /\ UNCHANGED <<text, tokens, raw, load_result, documents, user_context, query,
                   basic_results, context_results, context_info>>

NextHist == BuildHistoryPreferences

SpecHist == InitHist /\ [][NextHist]_vars

----------------------------------------------------------------------------
(* app.py: the module-level state and the index() view *)

\* UserContext.add_query
add_query_as_typed(context, q) ==
    [context EXCEPT !.query_history = Append(@, q)]

add_query(context, q) ==
    [context EXCEPT !.query_history = Append(@, Lower(q))]

\* the number of history entries shown
Shown == 10

\* list[-n:]
LastN(l, n) == IF Len(l) <= n THEN l ELSE SubSeq(l, Len(l) - n + 1, Len(l))

\* the context_info dict of index(), without system_time (the wall clock)
ContextInfo(context) ==
    [location |-> context.location,
     time_segment |-> context.time_segment,
     query_history |-> LastN(context.query_history, Shown)]

\* the form fields as the browser may send them
Kafe_padded == <<32, 32, 1050, 1072, 1092, 1077, 32>>
Lviv_padded == <<32, 76, 118, 105, 118, 32>>

FormQueries == {<<>>, Kafe_padded, news}
FormLocations == {<<>>, Lviv_padded}
FormTimeSegments == {morning, noon}

\* documents = load_documents(DATA_PATH): the data file is not part of the
\* sources, a two-document corpus stands for it
Corpus ==
    Numbered(<<Doc(Kafe_Perlyna, smachna_yizha, Kyiv, "food", any),
               Doc(News, kafe_news, Lviv, "news", morning)>>)

InitApp ==
    /\ documents = Corpus
    /\ user_context = UserContext(Kyiv, any)
    /\ query = <<>>
    /\ basic_results = <<>>
    /\ context_results = <<>>
    /\ history_prefs = NotCalled
    /\ context_info = NotCalled
    /\ TokIdle
    /\ LoadIdle
    /\ pc = "start"

\* index() on a POST request
IndexPost(form_query, form_location, form_time_segment) ==
    LET q == Strip(form_query)
        location == Strip(form_location)
        time_segment == Strip(form_time_segment)
        located == IF location # <<>>
                   THEN [user_context EXCEPT !.location = location]
                   ELSE user_context
        timed == IF time_segment \in {morning, evening, any}
                 THEN [located EXCEPT !.time_segment = time_segment]
                 ELSE located
        context == IF q # <<>> THEN add_query(timed, q) ELSE timed
    IN /\ q # <<>> => Len(user_context.query_history) < MaxRequests
       /\ query' = q
       /\ user_context' = context
       /\ basic_results' = IF q # <<>> THEN search(documents, q) ELSE <<>>
       /\ context_results' = IF q # <<>> THEN search_with_context(documents, q, context)
                             ELSE <<>>
       /\ context_info' = ContextInfo(context)
       /\ pc' = "index"
       /\ UNCHANGED <<text, tokens, raw, load_result, documents, history_prefs>>

\* index() on a GET request
IndexGet ==
    /\ query' = <<>>
    /\ basic_results' = <<>>
    /\ context_results' = <<>>
    /\ context_info' = ContextInfo(user_context)
    /\ pc' = "index"
    /\ UNCHANGED <<text, tokens, raw, load_result, documents, user_context, history_prefs>>

NextApp ==
    \/ IndexGet
    \/ \E fq \in FormQueries, fl \in FormLocations, ft \in FormTimeSegments :
          IndexPost(fq, fl, ft)

SpecApp == InitApp /\ [][NextApp]_vars

----------------------------------------------------------------------------
(* C4 *)

\* The reference tokenizer: scan the lower-cased text left to right, close the
\* current fragment at every delimiter, keep the non-empty fragments.
RECURSIVE Scan(_, _, _, _)
Scan(s, i, cur, delims) ==
    IF i > Len(s) THEN (IF cur = <<>> THEN <<>> ELSE <<cur>>)
    ELSE IF s[i] \in delims
         THEN (IF cur = <<>> THEN <<>> ELSE <<cur>>) \o Scan(s, i + 1, <<>>, delims)
         ELSE Scan(s, i + 1, Append(cur, s[i]), delims)

Reference(t, delims) == Scan(Lower(t), 1, <<>>, delims)

\* comma, period, semicolon, colon, exclamation, question mark, parentheses,
\* brackets, braces, newline, carriage return, tab, straight quotes, space
CommonDelims == {44, 46, 59, 58, 33, 63, 40, 41, 91, 93, 123, 125, 10, 13, 9, 34, 39, SPACE}

\* the curly quotes U+2018, U+2019, U+201C, U+201D
CurlyQuotes == {8216, 8217, 8220, 8221}

\* the angle quotes U+00AB, U+00BB
AngleQuotes == {171, 187}

OnlyDelims(t, delims) == \A i \in 1..Len(t) : t[i] \in delims

\* C4 as stated: tokenize agrees with the reference tokenizer whose quote
\* delimiters are the straight and the curly quotes.
C4_AsStated ==
    pc = "tokenize" => tokens = Reference(text, CommonDelims \cup CurlyQuotes)

\* C4 amended: tokenize(text) is the reference tokenizer whose delimiters are
\* the space, the listed punctuation and control characters, the straight
\* quotes and the angle quotes U+00AB, U+00BB (curly quotes are ordinary
\* characters); the empty string and every string of delimiters only give the
\* empty sequence, and tokenizing the space-joined output gives the output again.
C4_Tokenize ==
    pc = "tokenize" =>
        /\ tokens = Reference(text, CommonDelims \cup AngleQuotes)
        /\ (OnlyDelims(text, CommonDelims \cup AngleQuotes) => tokens = <<>>)
        /\ tokenize(Join(tokens)) = tokens

\* two fragments separated by an angle quote, after the call
C4_Witness ==
    /\ pc = "tokenize"
    /\ Len(tokens) = 2
    /\ \E i \in 1..Len(text) : text[i] \in AngleQuotes

----------------------------------------------------------------------------
(* C3 *)

Lacks(d) == {required[k] : k \in 1..Len(required)} \ DOMAIN d

Malformed(r) == \E i \in 1..Len(r) : Lacks(r[i]) # {}

FirstMalformed(r) == CHOOSE i \in 1..Len(r) : Lacks(r[i]) # {} /\ \A j \in 1..(i - 1) : Lacks(r[j]) = {}

Raised(res) == "raised" \in DOMAIN res

\* C3 as stated: a record list with a record lacking a required field ends in
\* an error that identifies the missing field and the index of the record.
C3_AsStated ==
    (pc = "load_documents" /\ Malformed(raw)) =>
        /\ Raised(load_result)
        /\ load_result.key \in Lacks(raw[FirstMalformed(raw)])
        /\ "index" \in DOMAIN load_result

\* C3 amended: a record list with a record lacking a required field ends in a
\* KeyError that names one missing field, the first in the order id, title,
\* content, location, category that the first such record lacks, and carries
\* nothing else (no record index); no document list is returned.  A list
\* without such a record is returned whole, in order, and a record lacking
\* only time_tag gets time_tag "any".
C3_LoadDocuments ==
    pc = "load_documents" =>
        IF Malformed(raw)
        THEN /\ DOMAIN load_result = {"raised", "key"}
             /\ load_result.raised = "KeyError"
             /\ load_result.key \in Lacks(raw[FirstMalformed(raw)])
             /\ \A k \in 1..Len(required) :
                    required[k] \in Lacks(raw[FirstMalformed(raw)])
                        => \E j \in 1..k : required[j] = load_result.key
        ELSE /\ DOMAIN load_result = {"returned"}
             /\ Len(load_result.returned) = Len(raw)
             /\ \A i \in 1..Len(raw) :
                    /\ \A f \in DOMAIN raw[i] : load_result.returned[i][f] = raw[i][f]
                    /\ "time_tag" \notin DOMAIN raw[i] => load_result.returned[i].time_tag = any

\* a well-formed record, then one lacking two required fields: KeyError raised
C3_WitnessError ==
    /\ pc = "load_documents"
    /\ Len(raw) = 2
    /\ Lacks(raw[1]) = {}
    /\ Cardinality(Lacks(raw[2])) = 2
    /\ Raised(load_result)

----------------------------------------------------------------------------
(* Claims about search_with_context, one result at a time *)

Results == 1..Len(context_results)

AfterContextSearch == pc = "search_with_context"

TimeSegments == {morning, evening, any}

\* the factor applied for the location, read from the result's own flag
FlagFactor(r) == IF r.context_info.matched_location THEN LocationBoost ELSE Neutral

\* final_score of r is base_score times its location factor, the given time
\* factor and its reported category weight
ScoredWith(r, time_factor) ==
    r.final_score = r.base_score * FlagFactor(r) * time_factor * r.context_info.category_weight

\* the time factor as C1 states it: 1.0 for a document tagged "any" whatever
\* the context's segment, else 1.3 on equal tags, else 0.9
StatedTimeFactor(doc, context) ==
    IF doc.time_tag = any THEN Neutral
    ELSE IF doc.time_tag = context.time_segment THEN TimeBoost
    ELSE TimePenalty

\* the corpus and the context of the end-to-end example
ExampleDocuments == Numbered(<<Doc(Kafe_Perlyna, smachna_yizha, Kyiv, "food", any)>>)

ExampleContext == [UserContext(Kyiv, any) EXCEPT !.query_history = <<kafe_khoroshe>>]

\* C1: every result is scored with time multiplier 1.3 when doc.time_tag equals
\* context.time_segment, 1.0 when doc.time_tag is "any" (for every segment of
\* the context, "any" included) and 0.9 otherwise; the end-to-end example gives
\* final_score 2.25 (900 in 1/400).
C1_TimeMultiplier ==
    AfterContextSearch =>
        /\ \A i \in Results :
              ScoredWith(context_results[i],
                         StatedTimeFactor(context_results[i].doc, user_context))
        /\ (documents = ExampleDocuments /\ user_context = ExampleContext /\ query = kafe)
              => (Len(context_results) = 1 /\ context_results[1].final_score = 900)

\* C2 as stated: with a time_segment outside {"morning", "evening", "any"}
\* every result is scored with time multiplier 1.0.
C2_AsStated ==
    (AfterContextSearch /\ user_context.time_segment \notin TimeSegments) =>
        \A i \in Results : ScoredWith(context_results[i], Neutral)

\* C2 amended: with a time_segment outside {"morning", "evening", "any"} the
\* call returns a result list, and no document tagged "morning", "evening" or
\* "any" gets the 1.3 boost: a document tagged "any" is scored with multiplier
\* 1.0, one tagged "morning" or "evening" with the mismatch penalty 0.9.
C2_InvalidSegment ==
    (AfterContextSearch /\ user_context.time_segment \notin TimeSegments) =>
        /\ context_results \in Seq({context_results[i] : i \in Results})
        /\ \A i \in Results :
              LET r == context_results[i]
              IN /\ r.doc.time_tag = any => ScoredWith(r, Neutral)
                 /\ r.doc.time_tag \in {morning, evening} => ScoredWith(r, TimePenalty)

\* a result for a document tagged "morning" under the segment "noon"
C2_Witness ==
    /\ AfterContextSearch
    /\ user_context.time_segment = noon
    /\ \E i \in Results : context_results[i].doc.time_tag = morning

\* the number of history entries that mention a category
Mentioning(history, cat) == Cardinality({i \in 1..Len(history) : Mentions(history[i], cat)})

\* the weight C7 states for a category
StatedWeight(cat, context) ==
    LET derived == IF cat \in Tracked
                   THEN One + Mentioning(context.query_history, cat) * HalfStep
                   ELSE One
    IN IF cat \in DOMAIN context.preferences
       THEN (derived * context.preferences[cat]) \div One
       ELSE derived

\* C7: the category_weight reported for a result, and multiplied into its
\* final_score, is the history-derived weight of the document's category (1.0
\* for a category outside the four tracked ones) times the explicit preference
\* of that category if there is one, and the history-derived weight alone if not.
C7_CategoryWeight ==
    AfterContextSearch =>
        \A i \in Results :
            LET r == context_results[i]
            IN /\ r.context_info.category_weight = StatedWeight(r.doc.category, user_context)
               /\ r.final_score = r.base_score * LocationFactor(r.doc, user_context)
                                    * TimeFactor(r.doc, user_context)
                                    * StatedWeight(r.doc.category, user_context)

\* preferences {"food": 2.0}, two food queries in the history: weight 4.0
C7_Witness ==
    /\ AfterContextSearch
    /\ user_context.preferences = [food |-> 8]
    /\ Mentioning(user_context.query_history, "food") = 2
    /\ \E i \in Results : /\ context_results[i].doc.category = "food"
                          /\ context_results[i].context_info.category_weight = 16

\* C8: the location factor of a result is 1.5 when the document's location
\* equals context.location ignoring letter case and 1.0 otherwise,
\* final_score = base_score * location_factor * time_factor * category_weight,
\* and matched_location is true exactly when the factor is 1.5.
C8_LocationFactor ==
    AfterContextSearch =>
        \A i \in Results :
            LET r == context_results[i]
                same == Lower(r.doc.location) = Lower(user_context.location)
                location_factor == IF same THEN LocationBoost ELSE Neutral
            IN /\ r.final_score = r.base_score * location_factor
                                    * TimeFactor(r.doc, user_context)
                                    * r.context_info.category_weight
               /\ r.context_info.matched_location = same

\* a document in "KYIV" found from "Kyiv": flag set, factor 1.5
C8_Witness ==
    /\ AfterContextSearch
    /\ user_context.location = Kyiv
    /\ \E i \in Results : /\ context_results[i].doc.location = KYIV
                          /\ context_results[i].context_info.matched_location

----------------------------------------------------------------------------
(* C5, C9: which documents are returned, and in which order *)

AfterSearch == pc = "search"

\* the occurrences of query tokens that are substrings of the document's text
Hits(doc, q) ==
    LET toks == tokenize(q)
        doc_text == Lower(doc.title \o <<SPACE>> \o doc.content)
    IN {k \in 1..Len(toks) : Contains(doc_text, toks[k])}

ResultsFor(results, doc) == {i \in 1..Len(results) : results[i].doc = doc}

\* C5: search returns exactly one result per document with a query token in
\* lowercase(title + " " + content), its base_score the number of such token
\* occurrences; no other document appears, every base_score is at least 1, and
\* the result is empty when the query has no token or no document matches.
C5_Search ==
    AfterSearch =>
        /\ \A d \in 1..Len(documents) :
              IF Hits(documents[d], query) # {}
              THEN /\ Cardinality(ResultsFor(basic_results, documents[d])) = 1
                   /\ \A i \in ResultsFor(basic_results, documents[d]) :
                         basic_results[i].base_score = Cardinality(Hits(documents[d], query))
              ELSE ResultsFor(basic_results, documents[d]) = {}
        /\ \A i \in 1..Len(basic_results) :
              /\ basic_results[i].base_score >= 1
              /\ \E d \in 1..Len(documents) : basic_results[i].doc = documents[d]
        /\ (tokenize(query) = <<>> => basic_results = <<>>)
        /\ ((\A d \in 1..Len(documents) : Hits(documents[d], query) = {}) => basic_results = <<>>)

\* two documents, the second matched in its content only, with two hits
C5_Witness ==
    /\ AfterSearch
    /\ Len(basic_results) = 2
    /\ \E i \in 1..2 : /\ basic_results[i].base_score = 2
                       /\ ~Contains(Lower(basic_results[i].doc.title), news)

\* in the list l of results, the document of a comes before the document of b
Before(l, a, b) ==
    \E m, n \in 1..Len(l) : m < n /\ l[m].doc = a.doc /\ l[n].doc = b.doc

\* C9: search returns results in descending base_score, equal scores in
\* document-list order; search_with_context returns the documents of search,
\* each once with its base_score, in descending final_score, equal
\* final_scores in the order search returned them.
C9_StableOrder ==
    /\ AfterSearch =>
          \A i, j \in 1..Len(basic_results) :
              i < j => \/ basic_results[i].base_score > basic_results[j].base_score
                       \/ /\ basic_results[i].base_score = basic_results[j].base_score
                          /\ basic_results[i].doc.id < basic_results[j].doc.id
    /\ AfterContextSearch =>
          LET base == search(documents, query)
          IN /\ Len(context_results) = Len(base)
             /\ \A j \in 1..Len(base) :
                   \E i \in Results :
                       /\ context_results[i].doc = base[j].doc
                       /\ context_results[i].base_score = base[j].base_score
             /\ \A i, j \in Results :
                   i < j => \/ context_results[i].final_score > context_results[j].final_score
                            \/ /\ context_results[i].final_score = context_results[j].final_score
                               /\ Before(base, context_results[i], context_results[j])

\* two results for different documents with equal final_score
C9_Witness ==
    /\ AfterContextSearch
    /\ Len(context_results) = 2
    /\ context_results[1].final_score = context_results[2].final_score
    /\ context_results[1].doc.id # context_results[2].doc.id

----------------------------------------------------------------------------
(* C6 *)

\* C6: build_history_preferences returns, for each of food, news, education
\* and sport, 1.0 + 0.5 * n, n being the number of history entries that contain
\* a keyword of the category (1.0 when n = 0).
C6_HistoryPreferences ==
    pc = "build_history_preferences" =>
        /\ DOMAIN history_prefs = {"food", "news", "education", "sport"}
        /\ \A cat \in DOMAIN history_prefs :
              history_prefs[cat]
                  = One + HalfStep * Mentioning(user_context.query_history, cat)

\* two food queries, one of them with two food keywords, and one news query:
\* food 2.0, news 1.5, education 1.0, sport 1.0
C6_Witness ==
    /\ pc = "build_history_preferences"
    /\ user_context.query_history = <<kafe, news, restoran_yizha>>
    /\ history_prefs = [food |-> 8, news |-> 6, education |-> 4, sport |-> 4]

----------------------------------------------------------------------------
(* C10 *)

\* C10: over the requests handled by index, query_history only grows at its
\* end: a request with a non-empty trimmed query appends exactly the
\* lowercased query, any other request leaves the history unchanged; the
\* preferences and the document list never change; the displayed history is
\* the last 10 entries of the full history.
C10_HistoryAppendOnly ==
    [][/\ query' # <<>> =>
             user_context'.query_history = Append(user_context.query_history, Lower(query'))
       /\ query' = <<>> => user_context'.query_history = user_context.query_history
       /\ user_context'.preferences = user_context.preferences
       /\ documents' = documents
       /\ context_info'.query_history
             = [i \in 1..(IF Len(user_context'.query_history) < 10
                          THEN Len(user_context'.query_history) ELSE 10) |->
                   user_context'.query_history[
                       i + (IF Len(user_context'.query_history) < 10 THEN 0
                            ELSE Len(user_context'.query_history) - 10)]]
      ]_vars

\* eleven queries handled, two different ones among them, ten shown
C10_Witness ==
    /\ pc = "index"
    /\ Len(user_context.query_history) = 11
    /\ user_context.query_history[1] # user_context.query_history[11]
    /\ Len(context_info.query_history) = 10
    /\ query # <<>>

====
